---- MODULE Spec2Model ----
(***************************************************************************)
(* A model of dashproxy.py: the manifest refresh loop of DashProxy (one    *)
(* control thread, whose refresh_mpd and handle_mpd call each other        *)
(* recursively), the downloader threads it starts for the representations  *)
(* of the first period, and the downloader registry.                       *)
(***************************************************************************)
EXTENDS Integers, Sequences, FiniteSets, TLC

VARIABLES
    stack,        \* the control thread's call stack, innermost activation last
    main,         \* "running", "finished" (run() returned) or "crashed" (uncaught exception)
    i_refresh,    \* DashProxy.i_refresh
    trees,        \* the manifest trees parsed so far, one per xml fromstring()
    threads,      \* the threads started by handle_mpd, by thread id
    downloaders,  \* DashProxy.downloaders: the RepAddr objects used as keys
    orig,         \* status of the response whose body manifest.mpd.orig holds
    failUse,      \* what has been done with the bodies of non-2xx responses
    disk,         \* the segment files under output_dir
    failures,     \* the segment requests that have failed so far
    server        \* what the HTTP server may answer, and to how many manifest
                  \* GETs it answers at all (fixed by Init)

vars == <<stack, main, i_refresh, trees, threads, downloaders, orig, failUse,
          disk, failures, server>>

----------------------------------------------------------------------------
(* Bounds of the model *)

\* frames the interpreter allows on the control thread before RecursionError
MaxDepth == 12
\* manifests dispatched before the model stops following the control thread
MaxDispatch == 2
\* manifest GETs the server answers when each may fail; later ones block
MaxGets == 12
\* manifest GETs the server answers when the passes are followed
MaxPolls == 2
\* segment requests the server lets fail in one run
MaxFailures == 1

(* Program constants *)

\* DashProxy.retry_interval
retry_interval == 10
\* the literal of `if error_cnt < 10`
RetryCap == 10
\* the literal of `self.refresh_mpd(after=10)`
RefreshAfter == 10

----------------------------------------------------------------------------
(* Manifests *)

TrickEP == [schemeIdUri |-> "http://dashif.org/guidelines/trickmode", value |-> "1"]
OtherEP == [schemeIdUri |-> "urn:other", value |-> "1"]

\* a URL template: its literal text and the placeholders it holds; the empty
\* string (an absent attribute) is NoTemplate
Template(lit, rep, number, time) ==
    [lit |-> lit, rep |-> rep, number |-> number, time |-> time]
NoTemplate == Template("", FALSE, FALSE, FALSE)

\* an S element: t is -1 when the attribute is absent (the code's own
\* sentinel), r is 0 when absent
S(t, d, r) == [t |-> t, d |-> d, r |-> r]

\* a SegmentTemplate: timeline is the list of its SegmentTimeline children
\* (none or one), each the list of its S children
SegmentTemplate(initialization, media, startNumber, timeline) ==
    [initialization |-> initialization, media |-> media,
     startNumber |-> startNumber, timeline |-> timeline]

\* a Representation: its id and its SegmentTemplate children (none or one)
Rep(id, st) == [id |-> id, st |-> st]

\* an AdaptationSet: its EssentialProperty children in document order, its
\* Representation children and its SegmentTemplate children (none or one)
ASet(eps, reps, st) == [eps |-> eps, reps |-> reps, st |-> st]

\* an on-demand manifest: no minimumUpdatePeriod, one adaptation set, two representations
MVod ==
    [kind |-> "mpd", mup |-> FALSE,
     asets |-> <<ASet(<<>>, <<Rep("v1", <<>>), Rep("v2", <<>>)>>, <<>>)>>]
\* a live manifest: a trick-mode adaptation set, and one whose trick-mode
\* descriptor is its second EssentialProperty
MLive ==
    [kind |-> "mpd", mup |-> TRUE,
     asets |-> <<ASet(<<TrickEP>>, <<Rep("t1", <<>>)>>, <<>>),
                 ASet(<<OtherEP, TrickEP>>, <<Rep("a1", <<>>)>>, <<>>)>>]

Manifests == {MVod, MLive}

\* what r.text can be: not well-formed XML, an MPD without Period, or a manifest
Unparseable == [kind |-> "unparseable", mup |-> FALSE, asets |-> <<>>]
NoPeriod == [kind |-> "noperiod", mup |-> FALSE, asets |-> <<>>]
Bodies == {Unparseable, NoPeriod} \cup Manifests

----------------------------------------------------------------------------
(* RepAddr: a plain object. The class defines neither __eq__ nor __hash__,  *)
(* so two RepAddr are equal exactly when they are the same object.          *)

RepAddr(oid, p, a, r) ==
    [oid |-> oid, period_idx |-> p, adaptation_set_idx |-> a, representation_idx |-> r]

RepAddrEq(x, y) == x.oid = y.oid

\* `rep_addr in self.downloaders`
InDownloaders(reg, rep_addr) == \E k \in reg : RepAddrEq(k, rep_addr)

\* the (period, adaptation-set, representation) indices of an address
Indices(ra) == <<ra.period_idx, ra.adaptation_set_idx, ra.representation_idx>>

----------------------------------------------------------------------------
(* The parsed tree. Its SegmentTimeline elements are the only part that is  *)
(* ever changed after parsing; each is kept as the list of its S children,  *)
(* an S child being known by the order in which it came to the timeline.    *)

\* the SegmentTemplate elements of a manifest that hold a SegmentTimeline:
\* <<a, r>> is that of representation r of adaptation set a, <<a, -1>> that
\* of adaptation set a itself
TimelineKeys(mpd) ==
    { <<a, -1>> : a \in { x \in 0 .. Len(mpd.asets) - 1 :
                            /\ mpd.asets[x + 1].st # <<>>
                            /\ mpd.asets[x + 1].st[1].timeline # <<>> } }
    \cup
    UNION { { <<a, r>> : r \in { y \in 0 .. Len(mpd.asets[a + 1].reps) - 1 :
                                    /\ mpd.asets[a + 1].reps[y + 1].st # <<>>
                                    /\ mpd.asets[a + 1].reps[y + 1].st[1].timeline # <<>> } } :
            a \in 0 .. Len(mpd.asets) - 1 }

TemplateAt(mpd, key) ==
    IF key[2] = -1 THEN mpd.asets[key[1] + 1].st[1]
    ELSE mpd.asets[key[1] + 1].reps[key[2] + 1].st[1]

Element(id, s) == [id |-> id, t |-> s.t, d |-> s.d, r |-> s.r]

\* xml.etree.ElementTree.fromstring(r.text)
ParseTree(body) ==
    [mpd |-> body,
     tl |-> [key \in TimelineKeys(body) |->
                LET ss == TemplateAt(body, key).timeline[1] IN
                [i \in 1 .. Len(ss) |-> Element(i, ss[i])]]]

----------------------------------------------------------------------------
(* Frames of the control thread *)

RefreshFrame(after, error_cnt, attempt) ==
    [fn |-> "refresh_mpd", pc |-> "start", after |-> after, error_cnt |-> error_cnt,
     status |-> "none", attempt |-> attempt, slept |-> 0, tree |-> 0]

HandleFrame(tree) ==
    [fn |-> "handle_mpd", pc |-> "start", after |-> 0, error_cnt |-> 0,
     status |-> "none", attempt |-> 0, slept |-> 0, tree |-> tree]

Top == stack[Len(stack)]

SetTop(f) == [stack EXCEPT ![Len(stack)] = f]

\* a call from the activation `caller` (already at its call site) to `callee`;
\* the interpreter raises RecursionError when the stack is full, and nothing
\* on the control thread catches it
Call(caller, callee) ==
    IF Len(stack) < MaxDepth
    THEN /\ stack' = Append(SetTop(caller), callee)
         /\ main' = main
    ELSE /\ stack' = <<>>
         /\ main' = "crashed"

Init ==
    /\ stack = <<RefreshFrame(0, 0, 1)>>
    /\ main = "running"
    /\ i_refresh = 0
    /\ trees = <<>>
    /\ threads = {}
    /\ downloaders = {}
    /\ orig = "none"
    /\ failUse = {}
    /\ disk = {}
    /\ failures = 0
    /\ server = [statuses |-> {"ok", "fail"}, bodies |-> Bodies, outcomes |-> {"ok"},
                 gets |-> MaxGets]

----------------------------------------------------------------------------
(* DashProxy.refresh_mpd *)

Running(fn, pc) ==
    /\ main = "running"
    /\ stack # <<>>
    /\ Top.fn = fn
    /\ Top.pc = pc

\* the retry test with <= for <
MayRetryOnceMore(error_cnt) == error_cnt <= RetryCap

\* `if error_cnt < 10`, on the counter already incremented
MayRetry(error_cnt) == error_cnt < RetryCap

\* `r.status_code < 200 or r.status_code >= 300`
IsFailure(status) == status = "fail"

\* i_refresh += 1, sleep(after), the GET, and for a non-2xx answer either the
\* recursive retry (which is entered before anything else of this activation
\* runs) or the "Giving up" warning; the activation then goes on to parse
refresh_mpd_get ==
    /\ Running("refresh_mpd", "start")
    /\ i_refresh < server.gets
    /\ i_refresh' = i_refresh + 1
    /\ \E st \in server.statuses :
         LET f == [Top EXCEPT !.status = st, !.slept = Top.after] IN
         IF IsFailure(st)
         THEN LET ec == Top.error_cnt + 1 IN
              IF MayRetry(ec)
              THEN Call([f EXCEPT !.error_cnt = ec, !.pc = "retry_call"],
                        RefreshFrame(retry_interval, ec, Top.attempt + 1))
              ELSE /\ stack' = SetTop([f EXCEPT !.error_cnt = ec, !.pc = "parse"])
                   /\ main' = main
         ELSE /\ stack' = SetTop([f EXCEPT !.pc = "parse"])
              /\ main' = main
    /\ UNCHANGED <<trees, threads, downloaders, orig, failUse, disk, failures, server>>

\* what is recorded about the body of this activation's response when it is
\* put to the use `u`
Used(u) == IF IsFailure(Top.status) THEN failUse \cup u ELSE failUse

\* fromstring(r.text), then manifest.mpd.orig is written from the parsed tree,
\* then handle_mpd(mpd) is called. The body is whatever the server sent with
\* this activation's response, of either status; it is first looked at here.
refresh_mpd_parse ==
    /\ Running("refresh_mpd", "parse")
    /\ Len(trees) < MaxDispatch
    /\ \E body \in server.bodies :
         IF body.kind = "unparseable"
         THEN /\ stack' = <<>>
              /\ main' = "crashed"
              /\ failUse' = Used({"parsed"})
              /\ UNCHANGED <<trees, orig>>
         ELSE /\ trees' = Append(trees, ParseTree(body))
              /\ orig' = Top.status
              /\ failUse' = Used({"parsed", "written"})
              /\ Call([Top EXCEPT !.pc = "handle_call", !.tree = Len(trees) + 1],
                      HandleFrame(Len(trees) + 1))
    /\ UNCHANGED <<i_refresh, threads, downloaders, disk, failures, server>>

----------------------------------------------------------------------------
(* DashProxy.handle_mpd *)

\* `ep = adaptation_set.find('mpd:EssentialProperty', ns)`: the first such
\* child, or None (here: the list of that child, or the empty list)
FindEP(aset) == IF aset.eps = <<>> THEN <<>> ELSE <<Head(aset.eps)>>

\* the condition under which the adaptation set is removed and skipped
IsTrickMode(aset) ==
    LET ep == FindEP(aset) IN
    /\ ep # <<>>
    /\ ep[1].schemeIdUri = "http://dashif.org/guidelines/trickmode"
    /\ ep[1].value = "1"

\* the rep_idx for which the inner loop starts a thread: the thread is started
\* in the body of the loop over the representations, so for each of them
StartedReps(aset) == 0 .. Len(aset.reps) - 1

\* the outcome of a query: a value, or an exception
Returns(v) == [ok |-> TRUE, v |-> v]
Raises == [ok |-> FALSE, v |-> 0]

\* the destination of a thread that has rendered none yet
NoDest == [lit |-> "", rep |-> "", number |-> -1, time |-> -1]

\* a thread about to run ensure_downloader(mpd, rep_addr), with the fields of
\* the DashDownloader it may create and the locals of the downloader's pass;
\* resolved, dests, nreq, errors, failedAt and prior record what the pass did,
\* init_at how many media segments it had resolved when it resolved the
\* initialization segment, lost the destinations it could not create because
\* the file existed, span what period_start and period_end gave it.
\* local says that the pass walks a SegmentTimeline element it has created
\* itself, whose S children are then in own.
NewThread(tree, a, r) ==
    [tree |-> tree, ra |-> RepAddr(<<tree, a, r>>, 0, a, r), pc |-> "check",
     initialization_downloaded |-> FALSE,
     ret |-> "", dest |-> NoDest, segments |-> <<>>,
     walk |-> <<>>, w |-> 0, next_time |-> 0,
     local |-> FALSE, own |-> <<>>,
     resolved |-> <<>>, dests |-> {}, nreq |-> 0, errors |-> 0, failedAt |-> {},
     prior |-> FALSE, init_at |-> <<>>, lost |-> {},
     span |-> [asked |-> FALSE, ps |-> Raises, pe |-> Raises]]

\* the threads one dispatch of the tree starts, each with a RepAddr of its own;
\* as_idx counts every adaptation set of the first period, removed or not
Spawned(tree, mpd) ==
    UNION { { NewThread(tree, as_idx, rep_idx) : rep_idx \in StartedReps(mpd.asets[as_idx + 1]) } :
            as_idx \in { a \in 0 .. Len(mpd.asets) - 1 : ~IsTrickMode(mpd.asets[a + 1]) } }

\* the response whose body the tree of this handle_mpd activation was parsed
\* from: that of the refresh_mpd activation that called it
CallerStatus == stack[Len(stack) - 1].status

\* handle_mpd: periods[0], the loop over the adaptation sets that starts the
\* threads, write_output_mpd, and then either the recursive refresh_mpd(after=10)
\* or the return
handle_mpd ==
    /\ Running("handle_mpd", "start")
    /\ LET mpd == trees[Top.tree].mpd IN
       IF mpd.kind = "noperiod"
       THEN /\ stack' = <<>>
            /\ main' = "crashed"
            /\ UNCHANGED <<threads, failUse>>
       ELSE /\ threads' = threads \cup Spawned(Top.tree, mpd)
            /\ failUse' = IF IsFailure(CallerStatus) THEN failUse \cup {"dispatched"} ELSE failUse
            /\ IF mpd.mup
               THEN Call([Top EXCEPT !.pc = "refresh_call"], RefreshFrame(RefreshAfter, 0, 1))
               ELSE /\ stack' = SetTop([Top EXCEPT !.pc = "return"])
                    /\ main' = main
    /\ UNCHANGED <<i_refresh, trees, downloaders, orig, disk, failures, server>>

\* where an activation goes on when the call it made returns: refresh_mpd
\* after its retry goes on to parse its own response; after handle_mpd it has
\* nothing left to do, and neither has handle_mpd after refresh_mpd
Continuation(pc) == IF pc = "retry_call" THEN "parse" ELSE "return"

\* an activation returns to its caller, or run() returns
frame_return ==
    /\ Running(Top.fn, "return")
    /\ IF Len(stack) = 1
       THEN /\ stack' = <<>>
            /\ main' = "finished"
       ELSE LET caller == stack[Len(stack) - 1] IN
            /\ stack' = [SubSeq(stack, 1, Len(stack) - 1) EXCEPT
                            ![Len(stack) - 1] = [caller EXCEPT !.pc = Continuation(caller.pc)]]
            /\ main' = main
    /\ UNCHANGED <<i_refresh, trees, threads, downloaders, orig, failUse, disk, failures, server>>

----------------------------------------------------------------------------
(* MpdLocator *)

\* MpdLocator.representation
Representation(mpd, ra) ==
    mpd.asets[ra.adaptation_set_idx + 1].reps[ra.representation_idx + 1]

\* MpdLocator.segment_template: the representation's own SegmentTemplate, else
\* the adaptation set's, else None (the empty list)
segment_template(mpd, ra) ==
    LET rep_st == Representation(mpd, ra).st IN
    IF rep_st # <<>> THEN rep_st ELSE mpd.asets[ra.adaptation_set_idx + 1].st

\* the element segment_template returns, as a key of the tree's timelines
TemplateKey(mpd, ra) ==
    IF Representation(mpd, ra).st # <<>>
    THEN <<ra.adaptation_set_idx, ra.representation_idx>>
    ELSE <<ra.adaptation_set_idx, -1>>

\* an xs:duration attribute: the list of none (attribute absent) or one record
\* of its day, hour, minute and second fields
NoDuration == <<>>
PT(h, m, sec) == <<[d |-> 0, h |-> h, m |-> m, s |-> sec]>>

\* ISO8601DurationSeconds, on the fields the pattern has matched
ISO8601DurationSeconds(duration) ==
    duration.s + 60 * duration.m + 60 * 60 * duration.h + 24 * 60 * 60 * duration.d

\* a Period element's own attributes
Period(start, duration) == [start |-> start, duration |-> duration]

\* MpdLocator.periods: the Period elements of the tree. A manifest that is
\* written without them has one Period that carries no attribute.
Periods(mpd) ==
    IF "periods" \in DOMAIN mpd THEN mpd.periods ELSE <<Period(NoDuration, NoDuration)>>

\* MPD@mediaPresentationDuration
MediaPresentationDuration(mpd) ==
    IF "mediaPresentationDuration" \in DOMAIN mpd THEN mpd.mediaPresentationDuration
    ELSE NoDuration

\* MpdLocator.period_start for the period with index p. With a start
\* attribute the value is that attribute less the start the query gives for
\* RepAddr(0, 0, 0), and 0.0 for the first period itself. Without one,
\* `RepAddr(rep_addr.period_idx - 1)` is evaluated for every period but the
\* first: a call with one argument of a constructor that requires three
\* (TypeError); for the first period the query returns 0.0.
RECURSIVE period_start(_, _)
period_start(mpd, p) ==
    LET period == Periods(mpd)[p + 1] IN
    IF period.start # NoDuration
    THEN IF p # 0
         THEN LET start == ISO8601DurationSeconds(period.start[1])
                  first_start == period_start(mpd, 0) IN
              IF first_start.ok THEN Returns(start - first_start.v) ELSE Raises
         ELSE Returns(0)
    ELSE IF p # 0 THEN Raises ELSE Returns(0)

\* MpdLocator.period_end for the period with index p. For the last period:
\* mediaPresentationDuration when present, else period_start plus the
\* period's duration (TypeError from re.match when it has none). For any
\* other period `RepAddr(rep_addr.period_idx + 1)` is evaluated: TypeError.
period_end(mpd, p) ==
    LET period_count == Len(Periods(mpd)) IN
    IF p = period_count - 1
    THEN IF MediaPresentationDuration(mpd) # NoDuration
         THEN Returns(ISO8601DurationSeconds(MediaPresentationDuration(mpd)[1]))
         ELSE LET period == Periods(mpd)[p + 1]
                  start == period_start(mpd, p) IN
              IF ~start.ok \/ period.duration = NoDuration THEN Raises
              ELSE Returns(start.v + ISO8601DurationSeconds(period.duration[1]))
    ELSE Raises

\* SegmentTemplate@duration and @timescale, with the defaults of attrib.get
Duration(st) == IF "duration" \in DOMAIN st THEN st.duration ELSE 0
Timescale(st) == IF "timescale" \in DOMAIN st THEN st.timescale ELSE 1

\* math.ceil(x / d) for integers x and d > 0
Ceil(x, d) == -((-x) \div d)

\* a SegmentTemplate without SegmentTimeline that declares a duration
FixedTemplate(initialization, media, startNumber, duration, timescale) ==
    [initialization |-> initialization, media |-> media, startNumber |-> startNumber,
     timeline |-> <<>>, duration |-> duration, timescale |-> timescale]

----------------------------------------------------------------------------
(* The threads. A thread is followed from one HTTP request to the next: a   *)
(* step takes it from the answer to a request up to the sending of its next *)
(* request. A pass moreover copies the timeline in one step and changes it  *)
(* in another.                                                              *)

SetThread(t, u) == (threads \ {t}) \cup {u}

Mpd(t) == trees[t.tree].mpd

Key(t) == TemplateKey(Mpd(t), t.ra)

\* `if segment_timeline:` an element is true when it has children
HasTimeline(t) ==
    /\ segment_template(Mpd(t), t.ra) # <<>>
    /\ Key(t) \in DOMAIN trees[t.tree].tl
    /\ trees[t.tree].tl[Key(t)] # <<>>

\* template.format(**args) raises KeyError when the template holds a
\* placeholder whose argument was not passed; segment and index are lists of
\* none or one value (None or the value)
RenderFails(template, segment, index) ==
    \/ template.time /\ segment = <<>>
    \/ template.number /\ index = <<>>

\* DashDownloader.render_template: the template's literal with the
\* placeholders it holds replaced by the representation id, the segment's t
\* and the index
render_template(template, representation, segment, index) ==
    [lit |-> template.lit,
     rep |-> IF template.rep THEN representation.id ELSE "",
     number |-> IF template.number THEN index[1] ELSE -1,
     time |-> IF template.time THEN segment[1] ELSE -1]

\* os.path.isfile(dest)
isfile(dest) == \E f \in disk : f.dest = dest

\* the S children of the SegmentTimeline the pass works on: those of the
\* element it created itself, or those of the template's in the tree
Children(t) ==
    IF t.local THEN t.own
    ELSE IF Key(t) \in DOMAIN trees[t.tree].tl THEN trees[t.tree].tl[Key(t)]
    ELSE <<>>

\* the branch without timeline: one artificial S with t = 0, the template's
\* duration and r = ceil((PEwc - PSwc) * ts / d), and a new, empty
\* SegmentTimeline element that is not part of the tree. period_start and
\* period_end may raise, and so does the division when d is 0.
Artificial(t) ==
    LET st == segment_template(Mpd(t), t.ra)[1]
        d == Duration(st)
        PSwc == period_start(Mpd(t), t.ra.period_idx)
        PEwc == IF PSwc.ok THEN period_end(Mpd(t), t.ra.period_idx) ELSE Raises
        ts == Timescale(st)
        u == [t EXCEPT !.span = [asked |-> TRUE, ps |-> PSwc, pe |-> PEwc]] IN
    IF ~PSwc.ok \/ ~PEwc.ok \/ d = 0
    THEN [u EXCEPT !.pc = "crashed"]
    ELSE [u EXCEPT !.segments = <<[id |-> 0, t |-> 0, d |-> d,
                                   r |-> Ceil((PEwc.v - PSwc.v) * ts, d)]>>,
                   !.local = TRUE, !.own = <<>>, !.pc = "expand"]

\* `if segment_timeline:` and its two branches. With a timeline,
\* `segments = copy.deepcopy(segment_timeline.findall('mpd:S', ns))`: the
\* pass holds its own copy of the S children the timeline has now
Snapshot(t, children) ==
    IF HasTimeline(t) THEN [t EXCEPT !.segments = children, !.pc = "expand"]
    ELSE Artificial(t)

\* list.insert(i, x) for i >= 0, here for a run of new children xs put in one
\* after the other at i, i+1, ...
InsertAt(children, i, xs) ==
    LET at == IF i < Len(children) THEN i ELSE Len(children) IN
    SubSeq(children, 1, at) \o xs \o SubSeq(children, at + 1, Len(children))

\* the new S elements one copied entry gives rise to: `repeat` of them, each
\* with the entry's d and nothing else
Repeats(children, duration, repeat) ==
    [i \in 1 .. repeat |-> [id |-> Len(children) + i, t |-> -1, d |-> duration, r |-> 0]]

\* `for segment in segments`, from the k-th copied entry on, with idx as the
\* loop left it: the children of the timeline after the loop
RECURSIVE Expanded(_, _, _, _)
Expanded(children, segments, k, idx) ==
    IF k > Len(segments) THEN children
    ELSE LET duration == segments[k].d
             repeat == IF segments[k].r > 0 THEN segments[k].r ELSE 0 IN
         Expanded(InsertAt(children, idx + 1, Repeats(children, duration, repeat)),
                  segments, k + 1, idx + 1 + repeat)

\* the position in the timeline of the S element with this id
PositionOf(children, id) == CHOOSE i \in 1 .. Len(children) : children[i].id = id

\* download_template up to the request, for a destination already rendered:
\* an existing file is skipped and the caller goes on at `ret`, else the
\* request is sent
download_template(t, dest, ret) ==
    [t EXCEPT !.dest = dest, !.dests = @ \cup {dest}, !.ret = ret,
              !.pc = IF isfile(dest) THEN ret ELSE "dl_fetch"]

\* the walk over the S elements listed in t.walk, from round t.w on, up to the
\* next request or the end of the list. In a round the element's t is read, or
\* written from the running clock when it has none; the clock advances by its
\* d; the media template is rendered and handed to download_template. Gives
\* the thread and the children of the timeline as the rounds leave them.
RECURSIVE Walk(_, _)
Walk(t, children) ==
    IF t.w = Len(t.walk)
    THEN [thread |-> [t EXCEPT !.pc = "done"], children |-> children]
    ELSE LET index == t.w
             at == PositionOf(children, t.walk[index + 1])
             segment == children[at]
             current_time == segment.t
             time == IF current_time = -1 THEN t.next_time ELSE current_time
             st == segment_template(Mpd(t), t.ra)[1]
             dest == render_template(st.media, Representation(Mpd(t), t.ra),
                                     <<time>>, <<index + st.startNumber>>)
             u == download_template(
                      [t EXCEPT !.w = index + 1,
                                !.next_time = time + segment.d,
                                !.resolved = Append(@, [t |-> time, d |-> segment.d])],
                      dest, "walk")
             ch == [children EXCEPT ![at].t = time] IN
         IF u.pc = "dl_fetch"
         THEN [thread |-> u, children |-> ch]
         ELSE Walk(u, ch)

\* where a thread goes on when download_template has returned: after the
\* initialization segment the timeline is copied, after a media segment the
\* walk goes on; a thread that an exception has ended does nothing more
Resume(t) ==
    LET children == Children(t) IN
    IF t.pc = "resolve" THEN [thread |-> Snapshot(t, children), children |-> children]
    ELSE IF t.pc = "walk" THEN Walk(t, children)
    ELSE [thread |-> t, children |-> children]

\* the thread and its timeline take the values of r
Resumed(t, r) ==
    IF r.thread.local
    THEN /\ threads' = SetThread(t, [r.thread EXCEPT !.own = r.children])
         /\ trees' = trees
    ELSE /\ threads' = SetThread(t, r.thread)
         /\ trees' = IF Key(t) \in DOMAIN trees[t.tree].tl
                     THEN [trees EXCEPT ![t.tree].tl[Key(t)] = r.children]
                     ELSE trees

\* an earlier downloader for the same indices, on another tree, has finished
\* its pass and every file it resolved is on disk
PriorPassOnDisk(t) ==
    \E u \in threads :
        /\ u.tree # t.tree
        /\ Indices(u.ra) = Indices(t.ra)
        /\ u.pc = "done"
        /\ \A d \in u.dests : isfile(d)

\* the initialization segment is resolved whether or not the template
\* declares one
WantsInitializationAlways(t, initialization_template) ==
    ~t.initialization_downloaded

\* `if initialization_template and not self.initialization_downloaded`
WantsInitialization(t, initialization_template) ==
    /\ initialization_template # NoTemplate
    /\ ~t.initialization_downloaded

\* DashDownloader.handle_mpd up to its first request or to the copy of the
\* timeline: the representation, its template and timeline are located
\* (AttributeError without a SegmentTemplate); the initialization template,
\* when declared and not yet downloaded, is rendered (KeyError for a
\* placeholder without argument) and handed to download_template
pass_start(t) ==
    LET st == segment_template(Mpd(t), t.ra)
        u == [t EXCEPT !.prior = PriorPassOnDisk(t), !.ret = "resolve"] IN
    IF st = <<>>
    THEN [u EXCEPT !.pc = "crashed"]
    ELSE LET initialization_template == st[1].initialization IN
         IF WantsInitialization(t, initialization_template)
         THEN LET w == [u EXCEPT !.initialization_downloaded = TRUE,
                                 !.init_at = Append(@, Len(t.resolved))] IN
              IF RenderFails(initialization_template, <<>>, <<>>)
              THEN [w EXCEPT !.pc = "crashed"]
              ELSE LET v == download_template(
                                w,
                                render_template(initialization_template,
                                                Representation(Mpd(t), t.ra), <<>>, <<>>),
                                "resolve") IN
                   IF v.pc = "dl_fetch" THEN v ELSE Snapshot(v, Children(t))
         ELSE Snapshot(u, Children(t))

\* DashProxy.ensure_downloader, run by each started thread: an address found
\* in the registry is logged and nothing is started; else a DashDownloader is
\* created, registered under the address and its handle_mpd called
ensure_downloader(t) ==
    /\ t.pc = "check"
    /\ IF InDownloaders(downloaders, t.ra)
       THEN /\ threads' = SetThread(t, [t EXCEPT !.pc = "already_started"])
            /\ downloaders' = downloaders
       ELSE /\ downloaders' = downloaders \cup {t.ra}
            /\ threads' = SetThread(t, pass_start(t))
    /\ UNCHANGED <<stack, main, i_refresh, trees, orig, failUse, disk, failures, server>>

\* the loop that inserts the repeats into the timeline of the tree, the
\* `segment_timeline.findall('mpd:S', ns)` the walk enumerates, and the walk
\* up to its first request
pass_expand(t) ==
    /\ t.pc = "expand"
    /\ LET children == Expanded(Children(t), t.segments, 1, 0) IN
       Resumed(t, Walk([t EXCEPT !.walk = [i \in 1 .. Len(children) |-> children[i].id],
                                 !.w = 0, !.next_time = 0],
                       children))
    /\ UNCHANGED <<stack, main, i_refresh, downloaders, orig, failUse,
                   disk, failures, server>>

\* the failure is not caught: the exception ends the thread
AfterFetchErrorRaises(t) ==
    [t EXCEPT !.pc = "crashed", !.nreq = @ + 1, !.errors = @ + 1,
              !.failedAt = @ \cup {t.w}]

\* `except Exception as e: self.error(e)` and the error branch of the status
\* test: the failure is logged and download_template returns
AfterFetchError(t) ==
    [t EXCEPT !.pc = t.ret, !.nreq = @ + 1, !.errors = @ + 1,
              !.failedAt = @ \cup {t.w}]

\* download_template returns after the body was written
AfterFetch(t) == [t EXCEPT !.pc = t.ret, !.nreq = @ + 1]

\* a file as one fetch has written it: its path, whether the whole body went
\* into it, and the downloader whose fetch created it
File(t, complete) == [dest |-> t.dest, complete |-> complete, by |-> t.ra.oid]

\* the file is opened with 'wb': an existing file is truncated and written
CreateTruncates(dest) == FALSE

\* `open(dest, 'xb')`: FileExistsError when the path exists
ExclusiveCreateFails(dest) == isfile(dest)

\* the answer to the request, the streaming of the body to the file opened
\* with 'xb', and the thread's way on to its next request:
\*   ok         2xx, the whole body is written
\*   status     a non-success status
\*   transport  the request raises before any body arrives
\*   midstream  2xx, and iter_content raises after the file was created
dl_fetch(t) ==
    /\ t.pc = "dl_fetch"
    /\ \E outcome \in server.outcomes :
         IF outcome \in {"status", "transport"}
         THEN /\ failures < MaxFailures
              /\ failures' = failures + 1
              /\ disk' = disk
              /\ Resumed(t, Resume(AfterFetchError(t)))
         ELSE IF ExclusiveCreateFails(t.dest)
         THEN \* open(dest, 'xb') raises FileExistsError
              /\ UNCHANGED <<disk, failures>>
              /\ Resumed(t, Resume(AfterFetchError([t EXCEPT !.lost = @ \cup {t.dest}])))
         ELSE IF outcome = "ok"
         THEN /\ disk' = disk \cup {File(t, TRUE)}
              /\ failures' = failures
              /\ Resumed(t, Resume(AfterFetch(t)))
         ELSE /\ failures < MaxFailures
              /\ failures' = failures + 1
              /\ disk' = disk \cup {File(t, FALSE)}
              /\ Resumed(t, Resume(AfterFetchError(t)))
    /\ UNCHANGED <<stack, main, i_refresh, downloaders, orig, failUse, server>>

----------------------------------------------------------------------------

Next ==
    \/ refresh_mpd_get
    \/ refresh_mpd_parse
    \/ handle_mpd
    \/ frame_return
    \/ \E t \in threads : ensure_downloader(t)

Spec == Init /\ [][Next]_vars

----------------------------------------------------------------------------
(* The downloaders' passes. A pass reads and writes the tree it was given   *)
(* and the disk, and nothing the refresh loop or the registry reads, so the *)
(* loop is followed above without the passes and the passes here, against a *)
(* server that answers every manifest GET with 200 and one same manifest.   *)

\* one adaptation set, two representations that share its SegmentTemplate;
\* live; segments addressed by number
MShared ==
    [kind |-> "mpd", mup |-> TRUE,
     asets |-> <<ASet(<<>>, <<Rep("a", <<>>), Rep("b", <<>>)>>,
                      <<SegmentTemplate(NoTemplate, Template("seg", TRUE, TRUE, FALSE), 1,
                                        <<<<S(0, 10, 1)>>>>)>>)>>]

\* one representation with its own template, an initialization segment and
\* the timeline [{t:0,d:10,r:2}]; on demand; segments addressed by time
MSingle ==
    [kind |-> "mpd", mup |-> FALSE,
     asets |-> <<ASet(<<>>, <<Rep("v", <<SegmentTemplate(Template("init", TRUE, FALSE, FALSE),
                                                          Template("seg", TRUE, FALSE, TRUE), 0,
                                                          <<<<S(0, 10, 2)>>>>)>>)>>,
                      <<>>)>>]

\* one representation; live; a timeline whose second entry has no t
MClock ==
    [kind |-> "mpd", mup |-> TRUE,
     asets |-> <<ASet(<<>>, <<Rep("c", <<>>)>>,
                      <<SegmentTemplate(NoTemplate, Template("seg", FALSE, TRUE, FALSE), 0,
                                        <<<<S(5, 10, 1), S(-1, 4, 0)>>>>)>>)>>]

\* the control thread and the disk as the program starts, against a server
\* that always answers the manifest GET with 200 and the manifest m, and
\* answers a segment request in one of the given ways
DownloadInit(m, outcomes) ==
    /\ stack = <<RefreshFrame(0, 0, 1)>>
    /\ main = "running"
    /\ i_refresh = 0
    /\ trees = <<>>
    /\ threads = {}
    /\ downloaders = {}
    /\ orig = "none"
    /\ failUse = {}
    /\ disk = {}
    /\ failures = 0
    /\ server = [statuses |-> {"ok"}, bodies |-> {m}, outcomes |-> outcomes,
                 gets |-> MaxPolls]

\* manifests whose representations each have a timeline of their own, and
\* segment requests that may fail
InitDownload ==
    \E m \in {MSingle, MClock} :
        DownloadInit(m, {"ok", "status", "transport", "midstream"})

\* a manifest whose representations share a timeline, next to one whose
\* representation has its own
InitShared ==
    \E m \in {MShared, MSingle} : DownloadInit(m, {"ok"})

NextDownload ==
    \/ Next
    \/ \E t \in threads : pass_expand(t)
    \/ \E t \in threads : dl_fetch(t)

SpecDownload == InitDownload /\ [][NextDownload]_vars

SpecShared == InitShared /\ [][NextDownload]_vars

----------------------------------------------------------------------------
(* Passes over templates without SegmentTimeline, and over a template whose *)
(* initialization attribute holds a placeholder.                            *)

\* two representations share a template with duration 10 at timescale 1; one
\* period, which mediaPresentationDuration ends at 25 s; on demand
MFixed ==
    [kind |-> "mpd", mup |-> FALSE,
     asets |-> <<ASet(<<>>, <<Rep("f", <<>>), Rep("g", <<>>)>>,
                      <<FixedTemplate(Template("init", TRUE, FALSE, FALSE),
                                      Template("seg", TRUE, TRUE, FALSE), 1, 10, 1)>>)>>,
     periods |-> <<Period(NoDuration, NoDuration)>>,
     mediaPresentationDuration |-> PT(0, 0, 25)]

\* duration 4 at timescale 2; one period with a duration of 5 s and no
\* mediaPresentationDuration; live
MTimescale ==
    [kind |-> "mpd", mup |-> TRUE,
     asets |-> <<ASet(<<>>, <<Rep("h", <<FixedTemplate(NoTemplate,
                                                        Template("seg", FALSE, FALSE, TRUE),
                                                        0, 4, 2)>>)>>,
                      <<>>)>>,
     periods |-> <<Period(PT(0, 0, 0), PT(0, 0, 5))>>,
     mediaPresentationDuration |-> NoDuration]

\* two periods, the first [0, 25) by its duration and by the start of the
\* second; the first period's template has duration 10 at timescale 1
MPeriods ==
    [kind |-> "mpd", mup |-> FALSE,
     asets |-> <<ASet(<<>>, <<Rep("p", <<FixedTemplate(NoTemplate,
                                                        Template("seg", TRUE, TRUE, FALSE),
                                                        1, 10, 1)>>)>>,
                      <<>>)>>,
     periods |-> <<Period(NoDuration, PT(0, 0, 25)), Period(PT(0, 0, 25), PT(0, 0, 25))>>,
     mediaPresentationDuration |-> PT(0, 0, 50)]

\* a timeline of two segments, and an initialization template that holds
\* $Number$
MBadInit ==
    [kind |-> "mpd", mup |-> FALSE,
     asets |-> <<ASet(<<>>, <<Rep("k", <<SegmentTemplate(Template("init", TRUE, TRUE, FALSE),
                                                          Template("seg", TRUE, FALSE, TRUE), 0,
                                                          <<<<S(0, 10, 1)>>>>)>>)>>,
                      <<>>)>>]

InitFixed ==
    \E m \in {MFixed, MTimescale, MPeriods, MBadInit} : DownloadInit(m, {"ok"})

SpecFixed == InitFixed /\ [][NextDownload]_vars

----------------------------------------------------------------------------
(* A live stream whose timeline grows from one refresh to the next.         *)

\* the manifest of a live stream whose timeline lists r + 1 segments of
\* duration 10 from time 0 on: one adaptation set, two representations that
\* share its SegmentTemplate, segments addressed by time
MGrow(r) ==
    [kind |-> "mpd", mup |-> TRUE,
     asets |-> <<ASet(<<>>, <<Rep("a", <<>>), Rep("b", <<>>)>>,
                      <<SegmentTemplate(NoTemplate, Template("seg", TRUE, FALSE, TRUE), 0,
                                        <<<<S(0, 10, r)>>>>)>>)>>]

\* the manifest of the stream once it has ended: the two segments, and no
\* minimumUpdatePeriod
MEnded == [MGrow(1) EXCEPT !.mup = FALSE]

\* what the server has to offer at one time or another
LiveManifests == {MGrow(0), MGrow(1), MEnded}

InitLive == DownloadInit(MGrow(0), {"ok"})

\* the stream goes on: the server's manifest lists one segment more, or
\* becomes that of the ended stream
server_update ==
    /\ \/ /\ server.bodies = {MGrow(0)}
          /\ server' = [server EXCEPT !.bodies = {MGrow(1)}]
       \/ /\ server.bodies # {MEnded}
          /\ server' = [server EXCEPT !.bodies = {MEnded}]
    /\ UNCHANGED <<stack, main, i_refresh, trees, threads, downloaders, orig, failUse,
                   disk, failures>>

NextLive == NextDownload \/ server_update

\* Every pass is a finite walk, and the server answers a bounded number of
\* manifest GETs: under fair scheduling each run comes to the state in which
\* every dispatched pass is over, and what is eventually done is what has been
\* done in that state.
SpecLive == InitLive /\ [][NextLive]_vars

----------------------------------------------------------------------------
(* Properties of the dispatch and of the registry *)

\* the threads that went on to start a downloader
Started == { t \in threads : t.pc \notin {"check", "already_started"} }

\* the adaptation set a thread's address points at, in the tree it was given
ASetOf(t) == trees[t.tree].mpd.asets[t.ra.adaptation_set_idx + 1]

\* the adaptation set carries a trick-mode EssentialProperty descriptor
HasTrickModeEP(aset) ==
    \E i \in 1 .. Len(aset.eps) :
        /\ aset.eps[i].schemeIdUri = "http://dashif.org/guidelines/trickmode"
        /\ aset.eps[i].value = "1"

\* C1: at most one downloader is ever started for one (period, adaptation-set,
\* representation) address: two started downloaders with component-wise equal
\* indices are the same downloader.
C1_AtMostOneDownloaderPerAddress ==
    \A t, u \in Started : Indices(t.ra) = Indices(u.ra) => t = u

\* C2: a downloader is requested only for the last Representation of an
\* adaptation set: every thread handle_mpd has started carries the index of
\* the last representation of its adaptation set.
C2_OnlyLastRepresentation ==
    \A t \in threads : t.ra.representation_idx = Len(ASetOf(t).reps) - 1

\* C3: no downloader is requested or started for a representation of an
\* adaptation set that carries the trick-mode EssentialProperty.
C3_NoTrickModeDownloader ==
    \A t \in threads : ~HasTrickModeEP(ASetOf(t))

----------------------------------------------------------------------------
(* Properties of the refresh loop *)

Frames == { stack[i] : i \in 1 .. Len(stack) }

\* the activation was called from handle_mpd (a scheduled refresh) or is run()'s
Scheduled(i) == i = 1 \/ stack[i - 1].fn = "handle_mpd"

\* C6: within one cycle (a scheduled refresh and its retries) at most 10 GETs
\* are made, every retry sleeps the retry interval before its GET, and a
\* scheduled refresh starts with the failure counter at zero: the counter of an
\* activation is the number of failed GETs of its cycle so far.
C6_RetryCapped ==
    \A i \in 1 .. Len(stack) :
        LET f == stack[i] IN
        f.fn = "refresh_mpd" =>
            /\ f.attempt <= RetryCap
            /\ (f.attempt > 1 /\ f.status # "none" => f.slept = retry_interval)
            /\ (Scheduled(i) => f.attempt = 1)
            /\ f.error_cnt = (IF f.status = "fail" THEN f.attempt ELSE f.attempt - 1)

\* the 10th GET of a cycle has failed and the cycle was given up
C6_Witness ==
    \E f \in Frames :
        /\ f.fn = "refresh_mpd"
        /\ f.attempt = RetryCap
        /\ f.status = "fail"
        /\ f.pc = "parse"
        /\ f.slept = retry_interval

\* C7: the body of a non-2xx manifest response is never parsed, never written
\* to manifest.mpd.orig and never dispatched.
C7_FailedResponseAbandoned == failUse = {}

\* a manifest without minimumUpdatePeriod has been dispatched
VodDispatched ==
    \E k \in 1 .. Len(trees) :
        /\ trees[k].mpd.kind = "mpd"
        /\ ~trees[k].mpd.mup
        /\ ~(Running("handle_mpd", "start") /\ Top.tree = k)

\* C8: once a manifest without minimumUpdatePeriod has been dispatched, no
\* further manifest GET is issued.
C8_NoGetAfterVod == [][VodDispatched => i_refresh' = i_refresh]_vars

\* every GET so far succeeded and every manifest handled so far is live
LiveOnly ==
    /\ main = "running"
    /\ \A f \in Frames :
          /\ f.status # "fail"
          /\ (f.fn = "handle_mpd" => trees[f.tree].mpd.kind = "mpd" /\ trees[f.tree].mpd.mup)

\* C9: on a live stream the number of nested activations of refresh_mpd and
\* handle_mpd stays within what one cycle needs, however many cycles have run.
C9_BoundedNesting == LiveOnly => Len(stack) <= 2

----------------------------------------------------------------------------
(* Properties of the passes *)

\* the S entries of the thread's timeline as the manifest declares them
Declared(t) == TemplateAt(Mpd(t), Key(t)).timeline[1]

\* the segments of one entry: r + 1 of them, d apart, from `start` on
Run(start, d, r) == [i \in 1 .. r + 1 |-> [t |-> start + (i - 1) * d, d |-> d]]

\* the segments a timeline stands for, from its k-th entry on with the clock
\* at `clock`: an entry's t anchors the clock, an entry without t starts at the
\* clock, and each of its r + 1 segments advances the clock by d
RECURSIVE Resolution(_, _, _)
Resolution(entries, k, clock) ==
    IF k > Len(entries) THEN <<>>
    ELSE LET e == entries[k]
             start == IF e.t # -1 THEN e.t ELSE clock IN
         Run(start, e.d, e.r) \o Resolution(entries, k + 1, start + (e.r + 1) * e.d)

\* C4: a downloader started when an earlier downloader for the same address
\* has finished its pass over the same manifest, with every file of that pass
\* on disk, issues no HTTP request.
C4_SecondPassIssuesNoRequest ==
    \A t \in threads : t.prior => t.nreq = 0

\* C5: a failed segment request does not end the pass: the thread is not
\* ended by it, and when the pass is over every segment of the list it walked
\* has been attempted.
C5_FailureDoesNotAbort ==
    \A t \in threads :
        t.failedAt # {} =>
            /\ t.pc # "crashed"
            /\ (t.pc = "done" => t.w = Len(t.walk))

\* a pass is over in which the request for a segment other than the last
\* failed and the segments after it were requested
C5_Witness ==
    \E t \in threads :
        /\ t.pc = "done"
        /\ \E i \in t.failedAt : 0 < i /\ i < Len(t.walk)
        /\ t.w = Len(t.walk)
        /\ t.nreq = Len(t.walk) + (IF segment_template(Mpd(t), t.ra)[1].initialization = NoTemplate
                                   THEN 0 ELSE 1)

\* C10: a finished pass has resolved exactly the segments the manifest's
\* explicit timeline stands for: sum(r_i + 1) of them, in timeline order, with
\* the start times of the running clock.
C10_ResolvesDeclaredTimeline ==
    \A t \in threads : t.pc = "done" => t.resolved = Resolution(Declared(t), 1, 0)

\* C10, against the entries the pass itself copied from the timeline
C10_ResolvesCopiedTimeline ==
    \A t \in threads :
        t.pc = "done" =>
            t.resolved = Resolution([i \in 1 .. Len(t.segments) |->
                                        [t |-> t.segments[i].t, d |-> t.segments[i].d,
                                         r |-> t.segments[i].r]], 1, 0)

----------------------------------------------------------------------------
(* Properties of the period queries and of the passes without timeline *)

\* the start of period p as the manifest declares it: its start attribute
\* relative to that of the first period or, without one, the start of the
\* period before it plus that period's duration (0 for the first period)
RECURSIVE StartOf(_, _)
StartOf(mpd, p) ==
    LET ps == Periods(mpd)
        first == IF ps[1].start = NoDuration THEN 0
                 ELSE ISO8601DurationSeconds(ps[1].start[1]) IN
    IF p = 0 THEN 0
    ELSE IF ps[p + 1].start # NoDuration
    THEN ISO8601DurationSeconds(ps[p + 1].start[1]) - first
    ELSE StartOf(mpd, p - 1) + ISO8601DurationSeconds(ps[p].duration[1])

\* the end of period p as the manifest declares it
EndOf(mpd, p) ==
    IF p < Len(Periods(mpd)) - 1 THEN StartOf(mpd, p + 1)
    ELSE IF MediaPresentationDuration(mpd) # NoDuration
    THEN ISO8601DurationSeconds(MediaPresentationDuration(mpd)[1])
    ELSE StartOf(mpd, p) + ISO8601DurationSeconds(Periods(mpd)[p + 1].duration[1])

\* the pass of t is over, by its end or by an exception
Over(t) == t.pc \in {"done", "crashed"}

\* t's template has no SegmentTimeline and declares a duration d > 0
FixedDuration(t) ==
    /\ segment_template(Mpd(t), t.ra) # <<>>
    /\ segment_template(Mpd(t), t.ra)[1].timeline = <<>>
    /\ Duration(segment_template(Mpd(t), t.ra)[1]) > 0

\* the segments of a period of t's manifest under t's fixed duration:
\* ceil((PE - PS) * ts / d) of them, at 0, d, 2d, ...
FixedSegments(t) ==
    LET st == segment_template(Mpd(t), t.ra)[1]
        p == t.ra.period_idx
        n == Ceil((EndOf(Mpd(t), p) - StartOf(Mpd(t), p)) * Timescale(st), Duration(st)) IN
    [i \in 1 .. n |-> [t |-> (i - 1) * Duration(st), d |-> Duration(st)]]

\* C11: a pass over a template without SegmentTimeline and with a duration
\* d > 0 resolves exactly ceil((PE - PS) * ts / d) media segments, with the
\* start times 0, d, 2d, ...
C11_FixedDurationCount ==
    \A t \in threads :
        FixedDuration(t) /\ t.span.asked /\ Over(t) =>
            /\ t.pc = "done"
            /\ t.resolved = FixedSegments(t)

\* the same for the manifests of one period only
C11_FixedDurationCountOnePeriod ==
    \A t \in threads :
        FixedDuration(t) /\ t.span.asked /\ Over(t) /\ Len(Periods(Mpd(t))) = 1 =>
            /\ t.pc = "done"
            /\ t.resolved = FixedSegments(t)

\* C12: in a manifest of two or more periods the end of a period that is not
\* the last is the start of the next period, and period_end returns that value
\* rather than failing.
C12_PeriodEndIsNextStart ==
    \A t \in threads :
        t.span.asked /\ t.ra.period_idx < Len(Periods(Mpd(t))) - 1 =>
            /\ t.span.pe.ok
            /\ t.span.pe.v = StartOf(Mpd(t), t.ra.period_idx + 1)

----------------------------------------------------------------------------
(* Properties of the control thread's handling of a manifest body *)

\* the activation i of refresh_mpd is a refresh that handle_mpd scheduled for
\* a live manifest, and its GET was answered with a 2xx status
LiveRefresh(i) ==
    /\ i > 1
    /\ stack[i].fn = "refresh_mpd"
    /\ stack[i].status = "ok"
    /\ stack[i - 1].fn = "handle_mpd"
    /\ trees[stack[i - 1].tree].mpd.mup

\* the control thread is about to parse or to dispatch the body of such a
\* refresh, with room on its stack for the calls this takes
HandlingLiveBody ==
    /\ main = "running"
    /\ Len(stack) < MaxDepth
    /\ \/ Running("refresh_mpd", "parse") /\ LiveRefresh(Len(stack))
       \/ Running("handle_mpd", "start") /\ LiveRefresh(Len(stack) - 1)

\* C13: on a live stream a body that cannot be parsed, or has no Period, does
\* not end the refresh loop: the control thread is still running after the
\* step that parses or dispatches it.
C13_MalformedManifestContained ==
    [][HandlingLiveBody => main' = "running"]_vars

\* C16: the step that parses the body of a 2xx response leaves that response's
\* snapshot in manifest.mpd.orig, whether or not the parsing succeeds (stated
\* for the first snapshot, when the file does not exist yet).
C16_OrigWrittenBeforeParse ==
    [][(/\ Running("refresh_mpd", "parse")
        /\ Top.status = "ok"
        /\ orig = "none"
        /\ stack' # stack) => orig' = "ok"]_vars

----------------------------------------------------------------------------
(* Properties of the tree, of the initialization segment and of the files *)

\* an S child as the manifest would declare it
AsDeclared(e) == S(e.t, e.d, e.r)

\* C14: a pass never changes the tree it was given: the S children of every
\* SegmentTimeline stay as they were parsed, and the passes that have ended
\* on one timeline have all resolved the same segment list.
C14_TreeNotMutated ==
    /\ \A k \in 1 .. Len(trees) : \A key \in DOMAIN trees[k].tl :
          [i \in 1 .. Len(trees[k].tl[key]) |-> AsDeclared(trees[k].tl[key][i])]
              = TemplateAt(trees[k].mpd, key).timeline[1]
    /\ \A t, u \in threads :
          (t.tree = u.tree /\ t.pc = "done" /\ u.pc = "done" /\ Key(t) = Key(u))
              => t.resolved = u.resolved

\* the template of t declares an initialization segment
DeclaresInitialization(t) ==
    /\ segment_template(Mpd(t), t.ra) # <<>>
    /\ segment_template(Mpd(t), t.ra)[1].initialization # NoTemplate

\* the rendering of t's initialization template has failed
RenderFailed(t) ==
    /\ DeclaresInitialization(t)
    /\ t.init_at # <<>>
    /\ RenderFails(segment_template(Mpd(t), t.ra)[1].initialization, <<>>, <<>>)

\* C15: a failure to render the initialization template costs that segment
\* only: the pass still ends having resolved every media segment of the
\* timeline.
C15_RenderFailureCostsOneSegment ==
    \A t \in threads :
        RenderFailed(t) /\ Over(t) =>
            /\ t.pc = "done"
            /\ t.resolved = Resolution(Declared(t), 1, 0)

\* C17: a downloader resolves the initialization segment at most once, only
\* when its template declares one, and before any media segment: it had
\* resolved no media segment when it did, and it has resolved no media segment
\* without having done so when one is declared.
C17_InitializationOnceBeforeMedia ==
    \A t \in threads :
        /\ Len(t.init_at) <= 1
        /\ (t.init_at # <<>> => DeclaresInitialization(t) /\ t.init_at[1] = 0)
        /\ (t.resolved # <<>> /\ DeclaresInitialization(t) => t.init_at # <<>>)

\* a pass has ended that requested the initialization segment and then the
\* three media segments of its timeline
C17_Witness ==
    \E t \in threads :
        /\ t.pc = "done"
        /\ t.init_at = <<0>>
        /\ Len(t.resolved) = 3
        /\ t.nreq = 4
        /\ \E f \in disk : f.dest.lit = "init" /\ f.by = t.ra.oid

\* C18: every segment file on disk holds a completely received body.
C18_NoPartialFile == \A f \in disk : f.complete

\* C20: no destination is written by two fetches, and a fetch that could not
\* create its file because the path existed was logged as an error and left
\* the file to the fetch that created it.
C20_ExclusiveCreate ==
    /\ \A f, g \in disk : f.dest = g.dest => f = g
    /\ \A t \in threads : \A d \in t.lost :
          /\ t.errors > 0
          /\ \E f \in disk : f.dest = d /\ f.by # t.ra.oid

\* two downloaders have requested the same destination; one wrote the file
\* and the other failed to create it
C20_Witness ==
    \E t, u \in threads :
        /\ t # u
        /\ t.lost # {}
        /\ \E f \in disk : f.dest \in t.lost /\ f.by = u.ra.oid /\ f.dest \in u.dests

----------------------------------------------------------------------------
(* Properties of a live stream *)

\* the addresses handle_mpd builds for the live manifests
LiveAddresses == { RepAddr(0, 0, 0, r) : r \in 0 .. 1 }

\* the destinations of the media segments a manifest lists for an address
Listed(mpd, ra) ==
    LET st == segment_template(mpd, ra)[1]
        res == Resolution(st.timeline[1], 1, 0) IN
    { render_template(st.media, Representation(mpd, ra), <<res[i].t>>,
                      <<i - 1 + st.startNumber>>) : i \in 1 .. Len(res) }

LiveDests == UNION { Listed(m, ra) : m \in LiveManifests, ra \in LiveAddresses }

\* handle_mpd has started the threads of the k-th tree
Dispatched(k) == \E t \in threads : t.tree = k

\* the k-th manifest, a refreshed one, has been dispatched and lists for the
\* address a destination that none of the manifests before it listed
NewlyListed(k, ra, dest) ==
    /\ k <= Len(trees)
    /\ Dispatched(k)
    /\ dest \in Listed(trees[k].mpd, ra)
    /\ \A j \in 1 .. k - 1 : Dispatched(j) /\ dest \notin Listed(trees[j].mpd, ra)

\* a downloader of the address has requested the destination, or has found
\* its file on disk
Requested(ra, dest) ==
    \E t \in threads : Indices(t.ra) = Indices(ra) /\ dest \in t.dests

\* the control thread has returned, or the last manifest the server answers
\* with has been dispatched, and every thread has run to its end: nothing is
\* left to be scheduled
AllPassesOver ==
    /\ \/ main = "finished"
       \/ i_refresh = server.gets /\ Len(trees) = server.gets
    /\ trees # <<>>
    /\ Dispatched(Len(trees))
    /\ \A t \in threads : Over(t) \/ t.pc = "already_started"

\* C19: on a live stream, a segment that a refreshed manifest is the first to
\* list for a representation dispatched before is eventually requested by a
\* downloader of that representation: it has been requested when every
\* thread has run to its end.
C19_NewSegmentEventuallyRequested ==
    AllPassesOver =>
        \A k \in 2 .. Len(trees) : \A ra \in LiveAddresses : \A dest \in LiveDests :
            NewlyListed(k, ra, dest) => Requested(ra, dest)

====
